---- MODULE Spec2Model ----
(***************************************************************************)
(* Model of the lux microkernel core: the system-call queue and dispatch   *)
(* (src/src/syscalls/queue.c) together with the platform routine that      *)
(* builds a syscall record (src/src/platform/x86_64/sched/context.c).      *)
(*                                                                         *)
(* User threads trap into syscallHandle on their own CPU while kernel      *)
(* worker threads (idleThread / kernelThread in src/src/main.c) run        *)
(* syscallProcess on other CPUs.  The bodies of syscallEnqueue and         *)
(* syscallDequeue run under schedLock and are atomic steps; everything     *)
(* outside the lock is a separate step.                                    *)
(***************************************************************************)
EXTENDS Integers, Sequences, FiniteSets, TLC

\* ------------------------------------------------------------------ bounds
NThreads == 2
NWorkers == 2
MaxCalls == 2
MaxSignals == 1

Threads == 1..NThreads
Workers == 1..NWorkers
NULL == 0

\* ------------------------------------------------- syscall number layout
\* (kernel/syscalls.h is not part of the sources; the layout keeps the
\* shape the code relies on: a table indexed 0..MAX_SYSCALL with an IPC
\* range, a read/write range and lseek)
MAX_SYSCALL == 4
SYSCALL_IPC_START == 2
SYSCALL_IPC_END == 2
SYSCALL_RW_START == 3
SYSCALL_RW_END == 3
SYSCALL_LSEEK == 4
NullSlot == 1

Functions == 0..(MAX_SYSCALL + 1)
TableIndex == 0..MAX_SYSCALL
\* syscallDispatchTable[f] # NULL
syscallDispatchTable(f) == f # NullSlot

RetVals == {0, 1}

VARIABLES
    status,     \* Thread.status
    sc,         \* Thread.syscall (the embedded SyscallRequest)
    requests,   \* static SyscallRequest *requests
    rax,        \* ThreadContext.regs.rax
    time,       \* Thread.time
    pending,    \* the thread has a pending signal
    upc,        \* position of a user thread inside syscallHandle
    wpc,        \* position of a worker inside syscallProcess
    wreq,       \* syscallProcess's local `syscall`
    hung,       \* a tail walk under schedLock never terminates
    fifo,       \* history: requests passed to syscallEnqueue, oldest first
    wlog,       \* history: what the worker did in its current/last pass
    calls,      \* number of traps taken so far
    raised,     \* number of signals raised
    wret        \* history: <<v>> once syscallProcess has returned v

\* descriptor tables and file descriptors (src/src/file.c)
VARIABLES
    io,         \* Process.io: the descriptor table of each process
    objs,       \* the heap objects the data pointers of the slots refer to
    fcall,      \* history: the last call into file.c and what it returned
    closed      \* history: closeFile returned 0 for the slot, not reopened

fvars == <<io, objs, fcall, closed>>

\* the general request dispatcher (src/src/servers/general.c)
VARIABLES
    gmsg,       \* the request handed to handleGeneralRequest
    gpc,        \* position inside handleGeneralRequest / getFramebuffer
    glog        \* history: what the dispatcher did for the request

gvars == <<gmsg, gpc, glog>>

\* the kernel thread (src/src/main.c)
VARIABLES
    kpc,        \* position of kernelThread
    kenv,       \* what the ramdisk and the loader hold for lumen
    kst         \* the kernel state kernelThread sets

kvars == <<kpc, kenv, kst>>

\* the path-carrying wrappers (src/src/file.c)
VARIABLES
    wsent       \* history: the last wrapper call and the path it sent

pvars == <<wsent>>

\* thread contexts and the TSS of one CPU
\* (src/src/platform/x86_64/sched/context.c)
VARIABLES
    ctxs,       \* ThreadContext of each thread: iopl and ioports
    tss,        \* kinfo->tss->ioports of the CPU
    cur,        \* kinfo->thread of the CPU
    want        \* history: ioports of the incoming thread at the last switch

cvars == <<ctxs, tss, cur, want>>

\* the flags of one descriptor slot under fcntl (src/src/file.c)
VARIABLES
    iod,        \* p->io[fd]: valid and flags
    fctl        \* history: the last fcntl call and what it returned

lvars == <<iod, fctl>>

\* the command buffers of the file wrappers (src/src/file.c)
VARIABLES
    cmds,       \* number of command buffers allocated and not yet freed
    bcall       \* history: the last wrapper call, its outcome and its result

bvars == <<cmds, bcall>>

\* the parts of the kernel modelled after the four above
xvars == <<pvars, cvars, lvars, bvars>>

qvars == <<status, sc, requests, rax, time, pending, upc, wpc, wreq, hung,
           fifo, wlog, calls, raised, wret>>

vars == <<status, sc, requests, rax, time, pending, upc, wpc, wreq, hung,
          fifo, wlog, calls, raised, wret, io, objs, fcall, closed,
          gmsg, gpc, glog, kpc, kenv, kst, xvars>>

\* ------------------------------------------------------------- scheduler
priority(t) == t % 2
\* schedTimeslice(thread, priority): a fresh, nonzero quantum
schedTimeslice(p) == p + 1

\* ------------------------------------------------------ the request list
RECURSIVE TailFrom(_, _, _)
\* while(q->next) q = q->next;  NULL when the walk does not end
TailFrom(s, q, fuel) ==
    IF s[q].next = NULL THEN q
    ELSE IF fuel = 0 THEN NULL
    ELSE TailFrom(s, s[q].next, fuel - 1)

WalkEnds(s, head) == head = NULL \/ TailFrom(s, head, NThreads) # NULL

RECURSIVE ChainFrom(_, _, _)
\* the records met by following next from q, at most fuel+1 of them
ChainFrom(s, q, fuel) ==
    IF q = NULL THEN <<>>
    ELSE IF fuel = 0 THEN <<q>>
    ELSE <<q>> \o ChainFrom(s, s[q].next, fuel - 1)

Linked(s, head) == ChainFrom(s, head, NThreads)

\* platformCreateSyscallContext
platformCreateSyscallContext(r, fn) ==
    [r EXCEPT !.next = NULL, !.busy = FALSE, !.function = fn, !.retry = FALSE]

EnqueueFlags_NoQueued(r) == [r EXCEPT !.unblock = FALSE, !.busy = FALSE]

\* syscallEnqueue: the flags of the request
EnqueueFlags(r) ==
    [r EXCEPT !.queued = TRUE, !.unblock = FALSE, !.busy = FALSE]

\* syscallEnqueue: the records after linking request t behind the tail
syscallEnqueue(s, head, t, st) ==
    LET s1 == [s EXCEPT ![t] = EnqueueFlags(s[t])]
        s2 == IF head = NULL THEN s1
              ELSE [s1 EXCEPT ![TailFrom(s1, head, NThreads)].next = t]
    IN  IF st = "BLOCKED" THEN [s2 EXCEPT ![t].retry = TRUE] ELSE s2

EnqueueHead(head, t) == IF head = NULL THEN t ELSE head

DequeueFlags_KeepQueued(r) == [r EXCEPT !.busy = TRUE]

\* syscallDequeue: the flags of the request taken from the head
DequeueFlags(r) == [r EXCEPT !.busy = TRUE, !.queued = FALSE]

\* syscallDequeue: the new head
DequeueHead(s, head) == s[head].next

IsFastPath_NoLseek(fn) ==
    \/ (fn >= SYSCALL_IPC_START /\ fn <= SYSCALL_IPC_END)
    \/ (fn >= SYSCALL_RW_START /\ fn <= SYSCALL_RW_END)

\* syscallHandle: the fast-path test
IsFastPath(fn) ==
    \/ (fn >= SYSCALL_IPC_START /\ fn <= SYSCALL_IPC_END)
    \/ (fn >= SYSCALL_RW_START /\ fn <= SYSCALL_RW_END)
    \/ fn = SYSCALL_LSEEK

\* syscallProcess: the invalid-function test
IsInvalid(fn) == fn > MAX_SYSCALL \/ ~syscallDispatchTable(fn)

ShouldWake_IgnoreStatus(st, r) == r.unblock

\* syscallProcess: the wake-up test at the end of a pass
ShouldWake(st, r) == st = "BLOCKED" /\ r.unblock

WakeFlags_KeepBusy(r) == r

\* syscallProcess: the request of a woken thread
WakeFlags(r) == [r EXCEPT !.busy = FALSE]

NoLog == [sig |-> FALSE, ran |-> FALSE, retry |-> FALSE]

\* the request list is empty and no thread is inside a syscall
QueueInit ==
    /\ status = [t \in Threads |-> "QUEUED"]
    /\ sc = [t \in Threads |->
               [next |-> NULL, busy |-> FALSE, queued |-> FALSE,
                unblock |-> FALSE, retry |-> FALSE, function |-> 0,
                ret |-> 0]]
    /\ requests = NULL
    /\ rax = [t \in Threads |-> 0]
    /\ time = [t \in Threads |-> schedTimeslice(priority(t))]
    /\ pending = [t \in Threads |-> FALSE]
    /\ upc = [t \in Threads |-> "user"]
    /\ wpc = [w \in Workers |-> "idle"]
    /\ wreq = [w \in Workers |-> NULL]
    /\ hung = FALSE
    /\ fifo = <<>>
    /\ wlog = [w \in Workers |-> NoLog]
    /\ calls = 0
    /\ raised = 0
    /\ wret = [w \in Workers |-> <<>>]

\* ------------------------------------------------------- scheduler steps
\* schedule(): a QUEUED thread is picked and runs; the timer charges the
\* running thread one tick of its quantum
Schedule(t) ==
    /\ status[t] = "QUEUED"
    /\ upc[t] = "user"
    /\ status' = [status EXCEPT ![t] = "RUNNING"]
    /\ time' = [time EXCEPT ![t] = IF time[t] > 0 THEN time[t] - 1 ELSE 0]
    /\ UNCHANGED <<sc, requests, rax, pending, upc, wpc, wreq, hung,
                   fifo, wlog, calls, raised,
                   wret>>

\* a signal is sent to a live thread
Raise(t) ==
    /\ status[t] # "ZOMBIE"
    /\ ~pending[t]
    /\ raised < MaxSignals
    /\ pending' = [pending EXCEPT ![t] = TRUE]
    /\ raised' = raised + 1
    /\ UNCHANGED <<status, sc, requests, rax, time, upc, wpc, wreq, hung,
                   fifo, wlog, calls,
                   wret>>

\* ---------------------------------------------------------- syscallHandle
\* queue.c 23-34: save the context, build the record, choose the path
SyscallEntry(t, fn) ==
    /\ status[t] = "RUNNING"
    /\ upc[t] = "user"
    /\ calls < MaxCalls
    /\ rax' = [rax EXCEPT ![t] = fn]
    /\ sc' = [sc EXCEPT ![t] = platformCreateSyscallContext(sc[t], rax'[t])]
    /\ upc' = [upc EXCEPT ![t] = IF IsFastPath(fn) THEN "fast" ELSE "enq"]
    /\ calls' = calls + 1
    /\ UNCHANGED <<status, requests, time, pending, wpc, wreq, hung,
                   fifo, wlog, raised, wret>>

\* queue.c 37-43: the thread's status after the fast-path handler
FastStatus(unb) == IF unb THEN "RUNNING" ELSE "BLOCKED"

FastContext_NoStore(old, ret, unb) == old

\* queue.c 37-43: the context register after the fast-path handler
FastContext(old, ret, unb) == IF unb THEN ret ELSE old

\* queue.c 35-43: the handler runs in trap context
FastPath(t, ret, unb) ==
    /\ upc[t] = "fast"
    /\ sc' = [sc EXCEPT ![t].ret = ret, ![t].unblock = unb]
    /\ status' = [status EXCEPT ![t] = FastStatus(unb)]
    /\ rax' = [rax EXCEPT ![t] = FastContext(rax[t], ret, unb)]
    /\ upc' = [upc EXCEPT ![t] = "user"]
    /\ UNCHANGED <<requests, time, pending, wpc, wreq, hung, fifo,
                   wlog, calls, raised,
                   wret>>

\* queue.c 45: syscallEnqueue(req)
HandleEnqueue(t) ==
    /\ upc[t] = "enq"
    /\ ~hung
    /\ IF WalkEnds(sc, requests)
       THEN /\ sc' = syscallEnqueue(sc, requests, t, status[t])
            /\ requests' = EnqueueHead(requests, t)
            /\ fifo' = Append(fifo, t)
            /\ upc' = [upc EXCEPT ![t] = "blk"]
            /\ hung' = hung
       ELSE /\ hung' = TRUE
            /\ upc' = [upc EXCEPT ![t] = "spin"]
            /\ UNCHANGED <<sc, requests, fifo>>
    /\ UNCHANGED <<status, rax, time, pending, wpc, wreq, wlog, calls,
                   raised,
                   wret>>

\* queue.c 46: t->status = THREAD_BLOCKED, then schedule()
HandleBlock(t) ==
    /\ upc[t] = "blk"
    /\ status' = [status EXCEPT ![t] = "BLOCKED"]
    /\ upc' = [upc EXCEPT ![t] = "user"]
    /\ UNCHANGED <<sc, requests, rax, time, pending, wpc, wreq, hung, fifo, wlog, calls, raised,
                   wret>>

\* ------------------------------------------- handlers and signal delivery
\* what a queued handler of syscallDispatchTable may do with its request:
\*   done  - store a return value and set unblock
\*   wait  - store a return value and leave the thread blocked (the reply
\*           of a server is outstanding)
\*   retry - put the request back at the tail with syscallEnqueue
\*   exit  - terminate the thread (unblock is set like for any other call)
HandlerOutcomes == [kind : {"done", "wait", "retry", "exit"}, ret : RetVals]

\* signalHandle(thread): the thread's status after pending signals are
\* delivered (terminated, set up to run a user handler, or unchanged); a
\* terminated thread is past delivery
signalHandle(st, pend) ==
    IF pend /\ st # "ZOMBIE" THEN {"ZOMBIE", "QUEUED", st} ELSE {st}

\* terminateThread(thread, -1, false)
terminateThread(st) == "ZOMBIE"

\* --------------------------------------------------------- syscallProcess
\* the worker leaves syscallProcess with return value v; its locals die
Return(w, v) ==
    /\ wpc' = [wpc EXCEPT ![w] = "idle"]
    /\ wreq' = [wreq EXCEPT ![w] = NULL]
    /\ wlog' = [wlog EXCEPT ![w] = NoLog]
    /\ wret' = [wret EXCEPT ![w] = <<v>>]

\* the worker moves on inside syscallProcess
Goto(w, pc) ==
    /\ wpc' = [wpc EXCEPT ![w] = pc]
    /\ wret' = wret

\* queue.c 110: if(!requests) return 0;
WStart(w) ==
    /\ wpc[w] = "idle"
    /\ IF requests = NULL
       THEN Return(w, 0)
       ELSE /\ wpc' = [wpc EXCEPT ![w] = "deq"]
            /\ wret' = [wret EXCEPT ![w] = <<>>]
            /\ UNCHANGED <<wreq, wlog>>
    /\ UNCHANGED <<status, sc, requests, rax, time, pending, upc, hung,
                   fifo, calls, raised>>

\* queue.c 111-112: syscallDequeue()
WDequeue(w) ==
    /\ wpc[w] = "deq"
    /\ ~hung
    /\ IF requests = NULL
       THEN /\ Return(w, 0)
            /\ UNCHANGED <<sc, requests, fifo>>
       ELSE /\ sc' = [sc EXCEPT ![requests] = DequeueFlags(sc[requests])]
            /\ requests' = DequeueHead(sc, requests)
            /\ wreq' = [wreq EXCEPT ![w] = requests]
            /\ fifo' = IF fifo = <<>> THEN fifo ELSE Tail(fifo)
            /\ Goto(w, "chk")
            /\ wlog' = wlog
    /\ UNCHANGED <<status, rax, time, pending, upc, hung, calls,
                   raised>>

\* queue.c 113: if(syscall->thread->status != THREAD_BLOCKED) return 0;
WCheck(w) ==
    /\ wpc[w] = "chk"
    /\ IF status[wreq[w]] # "BLOCKED"
       THEN Return(w, 0)
       ELSE /\ Goto(w, "disp")
            /\ UNCHANGED <<wreq, wlog>>
    /\ UNCHANGED <<status, sc, requests, rax, time, pending, upc, hung,
                   fifo, calls, raised>>

\* queue.c 119-123: undefined syscall, the thread is killed
WInvalid(w) ==
    /\ wpc[w] = "disp"
    /\ IsInvalid(sc[wreq[w]].function)
    /\ ~hung
    /\ status' = [status EXCEPT ![wreq[w]] = terminateThread(status[wreq[w]])]
    /\ Goto(w, "fin")
    /\ UNCHANGED <<sc, requests, rax, time, pending, upc, wreq, hung, fifo, wlog, calls, raised>>

AfterSignal_NoZombieCheck(st) ==
    CASE st = "QUEUED" -> "enqueue"
      [] st \in {"BLOCKED", "ZOMBIE"} -> "run"
      [] OTHER -> "fin"

\* queue.c 126-135: where the pass goes after signalHandle
AfterSignal(st) ==
    CASE st = "ZOMBIE" -> "return"
      [] st = "QUEUED" -> "enqueue"
      [] st = "BLOCKED" -> "run"
      [] OTHER -> "fin"

\* queue.c 125-131: signalHandle, then branch on the thread's status
WSignal(w, st) ==
    LET t == wreq[w] IN
    /\ wpc[w] = "disp"
    /\ ~IsInvalid(sc[t].function)
    /\ st \in signalHandle(status[t], pending[t])
    /\ status' = [status EXCEPT ![t] = st]
    /\ pending' = [pending EXCEPT ![t] = FALSE]
    /\ CASE AfterSignal(st) = "return" ->
              /\ Return(w, 1)
              /\ UNCHANGED <<sc, requests, fifo, hung>>
         [] AfterSignal(st) = "enqueue" ->
              /\ ~hung
              /\ wlog' = [wlog EXCEPT ![w].sig = TRUE]
              /\ wreq' = wreq
              /\ IF WalkEnds(sc, requests)
                 THEN /\ sc' = syscallEnqueue(sc, requests, t, st)
                      /\ requests' = EnqueueHead(requests, t)
                      /\ fifo' = Append(fifo, t)
                      /\ Goto(w, "fin")
                      /\ hung' = hung
                 ELSE /\ hung' = TRUE
                      /\ Goto(w, "spin")
                      /\ UNCHANGED <<sc, requests, fifo>>
         [] OTHER ->
              /\ Goto(w, AfterSignal(st))
              /\ wlog' = [wlog EXCEPT ![w].sig = TRUE]
              /\ UNCHANGED <<sc, requests, fifo, hung, wreq>>
    /\ UNCHANGED <<rax, time, upc, calls, raised>>

\* the request as the handler leaves it
HandlerRequest(r, o) ==
    CASE o.kind = "done" -> [r EXCEPT !.ret = o.ret, !.unblock = TRUE]
      [] o.kind = "wait" -> [r EXCEPT !.ret = o.ret, !.unblock = FALSE]
      [] o.kind = "retry" -> [r EXCEPT !.next = NULL]
      [] OTHER -> [r EXCEPT !.unblock = TRUE]

\* queue.c 132-134: the handler runs, its return value goes to the context
WRun(w, o) ==
    LET t == wreq[w]
        s1 == [sc EXCEPT ![t] = HandlerRequest(sc[t], o)]
    IN
    /\ wpc[w] = "run"
    /\ o \in HandlerOutcomes
    /\ o.kind \in {"retry", "exit"} => o.ret = 0
    /\ status' = [status EXCEPT ![t] = IF o.kind = "exit"
                                       THEN terminateThread(status[t])
                                       ELSE status[t]]
    /\ wlog' = [wlog EXCEPT ![w].ran = TRUE, ![w].retry = (o.kind = "retry")]
    /\ wreq' = wreq
    /\ IF o.kind = "retry"
       THEN /\ ~hung
            /\ IF WalkEnds(s1, requests)
               THEN /\ sc' = syscallEnqueue(s1, requests, t, status[t])
                    /\ requests' = EnqueueHead(requests, t)
                    /\ fifo' = Append(fifo, t)
                    /\ rax' = [rax EXCEPT ![t] = sc'[t].ret]
                    /\ Goto(w, "fin")
                    /\ hung' = hung
               ELSE /\ hung' = TRUE
                    /\ Goto(w, "spin")
                    /\ UNCHANGED <<sc, requests, fifo, rax>>
       ELSE /\ sc' = s1
            /\ rax' = [rax EXCEPT ![t] = s1[t].ret]
            /\ Goto(w, "fin")
            /\ UNCHANGED <<requests, fifo, hung>>
    /\ UNCHANGED <<time, pending, upc, calls, raised>>

\* queue.c 138-146: wake the thread if the handler asked for it
WFinish(w) ==
    LET t == wreq[w] IN
    /\ wpc[w] = "fin"
    /\ IF ShouldWake(status[t], sc[t])
       THEN /\ status' = [status EXCEPT ![t] = "QUEUED"]
            /\ time' = [time EXCEPT ![t] = schedTimeslice(priority(t))]
            /\ sc' = [sc EXCEPT ![t] = WakeFlags(sc[t])]
       ELSE UNCHANGED <<status, time, sc>>
    /\ Return(w, 1)
    /\ UNCHANGED <<requests, rax, pending, upc, hung, fifo, calls,
                   raised>>

\* ===================================================================
\* File descriptors (src/src/file.c)
\* ===================================================================
\* -------------------------------------------------------------- bounds
MaxObjs == 2
MaxPos == 2

\* (kernel/io.h and errno.h are not part of the sources; the table is
\* scaled down and the error numbers are the usual ones)
MAX_IO_DESCRIPTORS == 1
EPERM == 1
ESRCH == 3
EBADF == 9
EINVAL == 22

\* the parent and the child of a fork
Procs == {"P", "C"}
Fds == 0..(MAX_IO_DESCRIPTORS - 1)
\* descriptor numbers a caller may pass, in and out of range
FdArgs == (0 - 1)..MAX_IO_DESCRIPTORS
Objs == 1..MaxObjs
Offsets == (0 - 1)..MaxPos
Whences == {"SEEK_SET", "SEEK_CUR", "SEEK_END"}

\* an IODescriptor that is not in use; rd stands for O_RDONLY in flags
NoSlot == [valid |-> FALSE, type |-> "NONE", data |-> NULL, rd |-> FALSE]
\* heap memory that is not allocated
NoObj == [live |-> FALSE, kind |-> "NONE", refCount |-> 0, position |-> 0]
NoCall == [op |-> "none", p |-> "P", fd |-> 0, ret |-> 0, seq |-> 0]

\* the call returns: record it
Called(op, p, fd, ret) ==
    fcall' = [op |-> op, p |-> p, fd |-> fd, ret |-> ret,
              seq |-> 1 - fcall.seq]

\* file.c 194 / 174: if(fd < 0 || fd >= MAX_IO_DESCRIPTORS)
FdOutOfRange(fd) == fd < 0 \/ fd >= MAX_IO_DESCRIPTORS

\* file.c 201 / 181: (FileDescriptor *) p->io[fd].data
FileOf(p, fd) == io[p][fd].data

SeekTarget_SetIsRelative(pos, offset, where) ==
    CASE where = "SEEK_SET" -> pos + offset
      [] where = "SEEK_CUR" -> pos + offset
      [] OTHER -> 0 - 1

SeekTarget_EndIsStart(pos, offset, where) ==
    CASE where = "SEEK_SET" -> offset
      [] where = "SEEK_CUR" -> pos + offset
      [] OTHER -> 0

\* file.c 206-216: the switch on where
SeekTarget(pos, offset, where) ==
    CASE where = "SEEK_SET" -> offset
      [] where = "SEEK_CUR" -> pos + offset
      [] OTHER -> 0 - 1

\* lseek(t, fd, offset, where)
Lseek(p, fd, offset, where) ==
    /\ IF FdOutOfRange(fd)
       THEN Called("lseek", p, fd, 0 - EBADF) /\ UNCHANGED objs
       ELSE IF FileOf(p, fd) = NULL
       THEN Called("lseek", p, fd, 0 - EBADF) /\ UNCHANGED objs
       ELSE LET file == FileOf(p, fd)
                newOffset == SeekTarget(objs[file].position, offset, where)
            IN  IF newOffset < 0
                THEN Called("lseek", p, fd, 0 - EINVAL) /\ UNCHANGED objs
                ELSE /\ newOffset <= MaxPos
                     /\ objs' = [objs EXCEPT ![file].position = newOffset]
                     /\ Called("lseek", p, fd, newOffset)
    /\ UNCHANGED <<io, closed>>

\* file.c 194-199: lseek by a thread whose process getProcess no longer
\* finds; the caller is recorded as "gone"
LseekNoProcess(fd, offset, where) ==
    /\ Called("lseekNoProcess", "gone", fd,
              IF FdOutOfRange(fd) THEN 0 - EBADF ELSE 0 - ESRCH)
    /\ UNCHANGED <<io, objs, closed>>

\* closeIO(p, &p->io[fd]): the slot is no longer in use
closeIO(slot) == NoSlot

Release_FreeAlways(o) == NoObj

\* file.c 186-187: file->refCount--; if(!file->refCount) free(file);
Release(o) ==
    IF o.refCount - 1 = 0 THEN NoObj
    ELSE [o EXCEPT !.refCount = o.refCount - 1]

CloseSlot_KeepData(slot) == [slot EXCEPT !.valid = FALSE]

\* file.c 189: the slot after closeFile
CloseSlot(slot) == closeIO(slot)

\* closeFile(t, fd)
CloseFile(p, fd) ==
    IF FdOutOfRange(fd)
    THEN Called("close", p, fd, 0 - EBADF) /\ UNCHANGED <<io, objs, closed>>
    ELSE IF FileOf(p, fd) = NULL
    THEN Called("close", p, fd, 0 - EBADF) /\ UNCHANGED <<io, objs, closed>>
    ELSE /\ objs' = [objs EXCEPT ![FileOf(p, fd)] = Release(@)]
         /\ io' = [io EXCEPT ![p][fd] = CloseSlot(@)]
         /\ closed' = [closed EXCEPT ![p][fd] = TRUE]
         /\ Called("close", p, fd, 0)

\* readFile(t, id, &p->io[fd], buffer, count); the command goes to the
\* server and requestServer reports it sent
ReadFile(p, fd) ==
    /\ fd \in Fds
    /\ Called("read", p, fd,
              IF FileOf(p, fd) = NULL THEN 0 - EBADF
              ELSE IF ~io[p][fd].rd THEN 0 - EPERM
              ELSE 0)
    /\ UNCHANGED <<io, objs, closed>>

\* open completes: a free slot of p gets a fresh FileDescriptor
OpenFile(p, fd, rd) ==
    /\ io[p][fd] = NoSlot
    /\ \E o \in Objs :
          /\ ~objs[o].live
          /\ \A o2 \in Objs : o2 < o => objs[o2].live
          /\ objs' = [objs EXCEPT ![o] = [live |-> TRUE, kind |-> "FILE",
                                          refCount |-> 1, position |-> 0]]
          /\ io' = [io EXCEPT ![p][fd] = [valid |-> TRUE, type |-> "FILE",
                                          data |-> o, rd |-> rd]]
    /\ closed' = [closed EXCEPT ![p][fd] = FALSE]
    /\ UNCHANGED fcall

\* fork or dup: a second slot shares the FileDescriptor, refCount is bumped
ShareFile(p, fd, q, fd2) ==
    /\ io[p][fd].valid /\ io[p][fd].type = "FILE"
    /\ io[q][fd2] = NoSlot
    /\ io' = [io EXCEPT ![q][fd2] = io[p][fd]]
    /\ objs' = [objs EXCEPT ![io[p][fd].data].refCount = @ + 1]
    /\ closed' = [closed EXCEPT ![q][fd2] = FALSE]
    /\ UNCHANGED fcall

\* socket(): a free slot of p gets a socket; junk is what the socket's
\* memory holds where a FileDescriptor keeps its refCount
OpenSocket(p, fd, junk) ==
    /\ io[p][fd] = NoSlot
    /\ \E o \in Objs :
          /\ ~objs[o].live
          /\ \A o2 \in Objs : o2 < o => objs[o2].live
          /\ objs' = [objs EXCEPT ![o] = [live |-> TRUE, kind |-> "SOCKET",
                                          refCount |-> junk, position |-> 0]]
          /\ io' = [io EXCEPT ![p][fd] = [valid |-> TRUE, type |-> "SOCKET",
                                          data |-> o, rd |-> TRUE]]
    /\ closed' = [closed EXCEPT ![p][fd] = FALSE]
    /\ UNCHANGED fcall

\* no descriptor is open
FileIdle ==
    /\ io = [p \in Procs |-> [fd \in Fds |-> NoSlot]]
    /\ objs = [o \in Objs |-> NoObj]
    /\ fcall = NoCall
    /\ closed = [p \in Procs |-> [fd \in Fds |-> FALSE]]

FileNext ==
    \/ \E p \in Procs, fd \in FdArgs, off \in Offsets, wh \in Whences :
          Lseek(p, fd, off, wh) /\ UNCHANGED <<qvars, gvars, kvars, xvars>>
    \/ \E fd \in FdArgs, off \in Offsets, wh \in Whences :
          LseekNoProcess(fd, off, wh)
             /\ UNCHANGED <<qvars, gvars, kvars, xvars>>
    \/ \E p \in Procs, fd \in FdArgs :
          CloseFile(p, fd) /\ UNCHANGED <<qvars, gvars, kvars, xvars>>
    \/ \E p \in Procs, fd \in Fds :
          ReadFile(p, fd) /\ UNCHANGED <<qvars, gvars, kvars, xvars>>
    \/ \E p \in Procs, fd \in Fds, rd \in BOOLEAN :
          OpenFile(p, fd, rd) /\ UNCHANGED <<qvars, gvars, kvars, xvars>>
    \/ \E p, q \in Procs, fd, fd2 \in Fds :
          ShareFile(p, fd, q, fd2) /\ UNCHANGED <<qvars, gvars, kvars, xvars>>
    \/ \E p \in Procs, fd \in Fds, junk \in {1, 2} :
          OpenSocket(p, fd, junk) /\ UNCHANGED <<qvars, gvars, kvars, xvars>>

\* ===================================================================
\* The general request dispatcher (src/src/servers/general.c)
\* ===================================================================
\* -------------------------------------------------------------- bounds
MaxCommand == 8
MaxId == 1

\* sizeof(MessageHeader) and sizeof(FramebufferResponse) (kernel/servers.h
\* is not part of the sources; the header is the 20-byte wire prefix)
HeaderSize == 20
FramebufferResponseSize == HeaderSize + 28

\* general.c 95-103: the entries of generalRequests[]
GeneralTableSize == 7
GeneralHandler(command) == IF command = 6 THEN "getFramebuffer" ELSE "NULL"

\* the processes and threads in the registry: the kernel (pid 1), the
\* Router lumen (pid 2, threads 2 and 3), a child of the Router (pid 4)
\* and a child of that child (pid 5); tid 6 names no thread
KernelProc == 1
LumenProc == 2
ChildProc == 4
StrangerProc == 5
Tids == {2, 3, 4, 5}
Pids == {KernelProc, LumenProc, ChildProc, StrangerProc}
\* getThread(tid)->pid
ThreadPid(tid) == IF tid = 3 THEN LumenProc ELSE tid
\* getProcess(pid)->parent
ParentOf(pid) ==
    CASE pid = LumenProc -> KernelProc
      [] pid = ChildProc -> LumenProc
      [] pid = StrangerProc -> ChildProc
      [] OTHER -> 0
getLumenPID == LumenProc

Requesters == 0..6
Commands == 0..MaxCommand
Lengths == {HeaderSize - 1, HeaderSize}
Messages ==
    [command : Commands, length : Lengths, id : 0..MaxId,
     requester : Requesters, response : BOOLEAN]

NoMessage ==
    [command |-> 0, length |-> 0, id |-> 0, requester |-> 0,
     response |-> FALSE]
NoReply == [sent |-> FALSE, sd |-> 0, header |-> NoMessage]
\* events: what the call did, in order; handler: the function called
\* through the table; mapped: the pid whose address space got the frames
NoGLog ==
    [events |-> <<>>, handler |-> "none", reply |-> NoReply, mapped |-> 0,
     oob |-> FALSE]

Rejected_NoLengthCheck(req) == req.response \/ req.requester = 0

\* general.c 30: the header check
Rejected(req) ==
    req.response \/ req.requester = 0 \/ req.length < HeaderSize

\* general.c 38-41: the identity check on the requester of the header
IdentityOk(req) ==
    \/ req.requester = getLumenPID
    \/ ParentOf(ThreadPid(req.requester)) = getLumenPID

ResponseHeader_NoFlag(req) ==
    [req EXCEPT !.length = FramebufferResponseSize]

\* general.c 54-57: memcpy of the request header, response = 1, length
ResponseHeader(req) ==
    [req EXCEPT !.response = TRUE, !.length = FramebufferResponseSize]

\* getFramebuffer(t, sd, req, res); useOk: threadUseContext succeeds,
\* allocOk: vmmAllocate returns a base
getFramebuffer(tid, sd, req, useOk, allocOk) ==
    IF ~useOk
    THEN [NoGLog EXCEPT !.events = <<"lock", "use">>,
                        !.handler = "getFramebuffer"]
    ELSE IF ~allocOk
    THEN [NoGLog EXCEPT !.events = <<"lock", "use", "alloc", "release">>,
                        !.handler = "getFramebuffer"]
    ELSE [NoGLog EXCEPT
            !.events = <<"lock", "use", "alloc", "map", "release", "send">>,
            !.handler = "getFramebuffer",
            !.mapped = ThreadPid(tid),
            !.reply = [sent |-> TRUE, sd |-> sd,
                       header |-> ResponseHeader(req)]]

\* the command indexes an entry of generalRequests[]
InTable(command) == command < GeneralTableSize

\* general.c 44-47: the table lookup and the call; wild is what a read
\* past the end of the table yields ("NULL", a handler, or a fault)
Dispatch(tid, sd, req, useOk, allocOk, wild) ==
    LET slot == IF InTable(req.command) THEN GeneralHandler(req.command)
                ELSE wild
        out == CASE slot = "getFramebuffer" ->
                        getFramebuffer(tid, sd, req, useOk, allocOk)
                 [] slot = "NULL" -> [NoGLog EXCEPT !.events = <<"warn">>]
                 [] OTHER -> [NoGLog EXCEPT !.events = <<"fault">>,
                                            !.handler = "wild"]
    IN  [out EXCEPT !.events = <<"lookup">> \o @,
                    !.oob = ~InTable(req.command)]

\* a message arrives on socket sd of the kernel socket; the socket number
\* is the pid of the process that owns the connection
Receive(m, sender) ==
    /\ gpc = "idle"
    /\ m \in Messages
    /\ sender \in {LumenProc, ChildProc, StrangerProc}
    /\ gmsg' = [m |-> m, sd |-> sender]
    /\ gpc' = "handle"
    /\ glog' = NoGLog

\* handleGeneralRequest(sd, req, res)
HandleGeneralRequest(useOk, allocOk, wild) ==
    LET req == gmsg.m IN
    /\ gpc = "handle"
    /\ gpc' = "idle"
    /\ gmsg' = gmsg
    /\ glog' =
         IF Rejected(req) THEN NoGLog
         ELSE IF req.requester \notin Tids THEN NoGLog
         ELSE IF ~IdentityOk(req) THEN NoGLog
         ELSE Dispatch(req.requester, gmsg.sd, req, useOk, allocOk, wild)

\* nothing is being handled
GeneralIdle ==
    /\ gmsg = [m |-> NoMessage, sd |-> 0]
    /\ gpc = "idle"
    /\ glog = NoGLog

GeneralNext ==
    \/ \E m \in Messages, sender \in Pids :
          Receive(m, sender) /\ UNCHANGED <<qvars, fvars, kvars, xvars>>
    \/ \E useOk, allocOk \in BOOLEAN,
          wild \in {"NULL", "getFramebuffer", "fault"} :
          HandleGeneralRequest(useOk, allocOk, wild)
             /\ UNCHANGED <<qvars, fvars, kvars, xvars>>

\* ===================================================================
\* The kernel thread (src/src/main.c)
\* ===================================================================
\* ramdiskFileSize("lumen"): -1 when the file is absent
LumenSizes == {0 - 1, 0, 9, 10}
CpuCounts == {1, 9, 17}

\* main.c 101-106: idleThreshold for the number of CPUs
idleThreshold(cpus) == IF cpus > 16 THEN 2 ELSE IF cpus > 8 THEN 4 ELSE 8

\* the environments kernelThread may meet: the size of lumen on the
\* ramdisk, whether malloc and ramdiskRead succeed, the pid execveMemory
\* returns (0 when it fails)
BootEnvs ==
    [size : LumenSizes, mallocOk : BOOLEAN, readOk : BOOLEAN,
     pid : {0, LumenProc}, cpus : CpuCounts]

\* main() has enabled scheduling (main.c 115) before kernelThread runs
BootState0 ==
    [scheduling |-> TRUE, localSched |-> TRUE, kernelPID |-> 0,
     lumenPID |-> 0, execs |-> 0, count |-> 0, loops |-> 0]

LumenTooSmall_Off(size) == size <= 0

\* main.c 44: if(size <= 9)
LumenTooSmall(size) == size <= 9

\* main.c 33-38
KStart ==
    /\ kpc = "start"
    /\ kst' = [kst EXCEPT !.scheduling = FALSE, !.localSched = FALSE,
                          !.kernelPID = KernelProc]
    /\ kpc' = "size"
    /\ kenv' = kenv

\* main.c 43-47
KSize ==
    /\ kpc = "size"
    /\ kpc' = IF LumenTooSmall(kenv.size) THEN "halt" ELSE "alloc"
    /\ UNCHANGED <<kst, kenv>>

\* main.c 49-53
KAlloc ==
    /\ kpc = "alloc"
    /\ kpc' = IF ~kenv.mallocOk THEN "halt" ELSE "read"
    /\ UNCHANGED <<kst, kenv>>

\* main.c 55-58
KRead ==
    /\ kpc = "read"
    /\ kpc' = IF ~kenv.readOk THEN "halt" ELSE "exec"
    /\ UNCHANGED <<kst, kenv>>

\* main.c 61-67: execveMemory, free, if(!pid) halt
KExec ==
    /\ kpc = "exec"
    /\ kst' = [kst EXCEPT !.execs = @ + 1]
    /\ kpc' = IF kenv.pid = 0 THEN "halt" ELSE "setpid"
    /\ kenv' = kenv

\* main.c 69-76: setLumenPID, then scheduling is enabled again
KEnable ==
    /\ kpc = "setpid"
    /\ kst' = [kst EXCEPT !.lumenPID = kenv.pid, !.scheduling = TRUE,
                          !.localSched = TRUE]
    /\ kpc' = "loop"
    /\ kenv' = kenv

\* main.c 79-87: one turn of the serverIdle/syscallProcess loop
KLoop ==
    /\ kpc = "loop"
    /\ kst' = [kst EXCEPT
                 !.loops = 1,
                 !.count = IF @ + 1 >= idleThreshold(kenv.cpus) THEN 0
                           ELSE @ + 1]
    /\ UNCHANGED <<kpc, kenv>>

\* main.c 46, 52, 57, 66: while(1) platformHalt();
KHalt ==
    /\ kpc = "halt"
    /\ UNCHANGED <<kpc, kst, kenv>>

\* kernelThread has not been created
BootIdle ==
    /\ kpc = "none"
    /\ kenv = [size |-> 10, mallocOk |-> TRUE, readOk |-> TRUE,
               pid |-> LumenProc, cpus |-> 1]
    /\ kst = BootState0

BootNext ==
    \/ KStart /\ UNCHANGED <<qvars, fvars, gvars, xvars>>
    \/ KSize /\ UNCHANGED <<qvars, fvars, gvars, xvars>>
    \/ KAlloc /\ UNCHANGED <<qvars, fvars, gvars, xvars>>
    \/ KRead /\ UNCHANGED <<qvars, fvars, gvars, xvars>>
    \/ KExec /\ UNCHANGED <<qvars, fvars, gvars, xvars>>
    \/ KEnable /\ UNCHANGED <<qvars, fvars, gvars, xvars>>
    \/ KLoop /\ UNCHANGED <<qvars, fvars, gvars, xvars>>
    \/ KHalt /\ UNCHANGED <<qvars, fvars, gvars, xvars>>

\* ===================================================================
\* The path-carrying wrappers (src/src/file.c)
\* ===================================================================
\* -------------------------------------------------------------- bounds
MaxPathLen == 2
MaxCwdLen == 2

\* the characters that matter: the separator and any other byte
Chars == {"/", "a"}
Strs(n) == UNION {[1..k -> Chars] : k \in 0..n}
\* the path arguments a caller may pass, the empty string included
Paths == Strs(MaxPathLen)
\* Process.cwd is an absolute path
Cwds == {c \in Strs(MaxCwdLen) : Len(c) > 0 /\ c[1] = "/"}
Wrappers == {"open", "stat", "chown", "chmod", "mount"}

\* file.c 93-99 (open), 53-59 (stat), 289-295 (chown), 316-322 (chmod):
\* strcpy of the path, or of cwd, a '/' when strlen(cwd) > 1, and the path
Resolve(cwd, path) ==
    IF Len(path) > 0 /\ path[1] = "/" THEN path
    ELSE cwd \o (IF Len(cwd) > 1 THEN <<"/">> ELSE <<>>) \o path

\* the path in the command the wrapper hands to requestServer; mount
\* (file.c 34) copies its target as it is
SentPath(op, cwd, path) ==
    IF op = "mount" THEN path ELSE Resolve(cwd, path)

NoSent == [op |-> "none", cwd |-> <<"/">>, path |-> <<>>, sent |-> <<>>]

\* a thread of a process with working directory cwd calls wrapper op
Wrap(op, cwd, path) ==
    wsent' = [op |-> op, cwd |-> cwd, path |-> path,
              sent |-> SentPath(op, cwd, path)]

\* no wrapper has been called
WrapIdle == wsent = NoSent

WrapNext ==
    \E op \in Wrappers, cwd \in Cwds, path \in Paths :
       Wrap(op, cwd, path)
          /\ UNCHANGED <<qvars, fvars, gvars, kvars, cvars, lvars, bvars>>

\* ===================================================================
\* Context switches (src/src/platform/x86_64/sched/context.c)
\* ===================================================================
\* -------------------------------------------------------------- bounds
NContexts == 3
NPorts == 2

CtxThreads == 1..NContexts
Ports == 1..NPorts
\* an I/O bitmap is the set of the ports whose bit is clear (allowed)
DenyAll == {}
Bitmaps == SUBSET Ports

\* memory that holds no context yet
NoContext == [made |-> FALSE, iopl |-> 0, ioports |-> DenyAll]

\* context.c 76-88: memset(ptr, 0, ...) and memset(ioports, 0xFF, 8192)
platformCreateContext(t) ==
    /\ ~ctxs[t].made
    /\ ctxs' = [ctxs EXCEPT ![t] = [made |-> TRUE, iopl |-> 0,
                                    ioports |-> DenyAll]]
    /\ UNCHANGED <<tss, cur, want>>

\* context.c 273-286: memcpy(child, parent, sizeof(ThreadContext))
platformCloneContext(c, p) ==
    /\ ~ctxs[c].made /\ ctxs[p].made
    /\ ctxs' = [ctxs EXCEPT ![c] = ctxs[p]]
    /\ UNCHANGED <<tss, cur, want>>

\* a thread is given I/O privilege: its iopl becomes nonzero and its
\* bitmap is rewritten
GrantPorts(t, ports) ==
    /\ ctxs[t].made
    /\ ctxs' = [ctxs EXCEPT ![t].iopl = 1, ![t].ioports = ports]
    /\ UNCHANGED <<tss, cur, want>>

CopiesBitmap_IncomingOnly(new, old) == ctxs[new].iopl # 0

\* context.c 129-133: if(ctx->iopl || (oldctx && oldctx->iopl))
CopiesBitmap(new, old) ==
    ctxs[new].iopl # 0 \/ (old # NULL /\ ctxs[old].iopl # 0)

\* context.c 117-140: platformSwitchContext(t)
platformSwitchContext(t) ==
    /\ ctxs[t].made
    /\ tss' = IF CopiesBitmap(t, cur) THEN ctxs[t].ioports ELSE tss
    /\ cur' = t
    /\ want' = ctxs[t].ioports
    /\ ctxs' = ctxs

\* the CPU has run no thread yet and its TSS denies every port
CtxIdle ==
    /\ ctxs = [t \in CtxThreads |-> NoContext]
    /\ tss = DenyAll
    /\ cur = NULL
    /\ want = DenyAll

CtxNext ==
    \/ \E t \in CtxThreads :
          platformCreateContext(t)
             /\ UNCHANGED <<qvars, fvars, gvars, kvars, pvars, lvars, bvars>>
    \/ \E c, p \in CtxThreads :
          platformCloneContext(c, p)
             /\ UNCHANGED <<qvars, fvars, gvars, kvars, pvars, lvars, bvars>>
    \/ \E t \in CtxThreads, ports \in Bitmaps :
          GrantPorts(t, ports)
             /\ UNCHANGED <<qvars, fvars, gvars, kvars, pvars, lvars, bvars>>
    \/ \E t \in CtxThreads :
          platformSwitchContext(t)
             /\ UNCHANGED <<qvars, fvars, gvars, kvars, pvars, lvars, bvars>>

\* ===================================================================
\* fcntl (src/src/file.c)
\* ===================================================================
\* -------------------------------------------------------------- bounds
MaxArgBits == 2

\* the bits of IODescriptor.flags, by name
StatusFlags == {"O_APPEND", "O_NONBLOCK", "O_SYNC", "O_DSYNC"}
DescFlags == {"O_CLOEXEC", "O_CLOFORK"}
AllFlags == StatusFlags \cup DescFlags \cup {"O_RDONLY"}
\* the bits of the argument of F_SETFD; FD_OTHER is any bit fcntl ignores
FdBits == {"FD_CLOEXEC", "FD_CLOFORK"}
FdArgBits == FdBits \cup {"FD_OTHER"}
FcntlCmds == {"F_GETFD", "F_GETFL", "F_SETFD", "F_SETFL", "F_OTHER"}

\* the arguments a caller may pass with a command
FcntlArgs(cmd) ==
    CASE cmd = "F_SETFL" ->
            {a \in SUBSET AllFlags : Cardinality(a) <= MaxArgBits}
      [] cmd = "F_SETFD" ->
            {a \in SUBSET FdArgBits : Cardinality(a) <= MaxArgBits}
      [] cmd = "F_OTHER" -> {{}, {"O_APPEND"}, {"FD_CLOEXEC"}}
      [] OTHER -> {{}}

\* a return value: a negated errno, or zero with the bits of the status
Failed(e) == [err |-> 0 - e, bits |-> {}]
Bits(b) == [err |-> 0, bits |-> b]

\* file.c 234-236: F_GETFD
GetFd(flags) ==
    (IF "O_CLOEXEC" \in flags THEN {"FD_CLOEXEC"} ELSE {}) \cup
    (IF "O_CLOFORK" \in flags THEN {"FD_CLOFORK"} ELSE {})

\* file.c 239: F_GETFL
GetFl(flags) == flags \cap StatusFlags

\* file.c 242-245: F_SETFD
SetFd(flags, arg) ==
    LET f1 == IF "FD_CLOEXEC" \in arg THEN flags \cup {"O_CLOEXEC"}
              ELSE flags \ {"O_CLOEXEC"}
    IN  IF "FD_CLOFORK" \in arg THEN f1 \cup {"O_CLOFORK"}
        ELSE f1 \ {"O_CLOFORK"}

SetFl_NoClear(flags, arg) == flags \cup (arg \cap StatusFlags)

\* file.c 249-256: F_SETFL, each of the four flags set or cleared
SetFl(flags, arg) ==
    {f \in flags : f \notin StatusFlags} \cup
    {f \in StatusFlags : f \in arg}

NoFcntl == [cmd |-> "none", arg |-> {}, ret |-> Bits({})]

\* file.c 223-264: fcntl(t, fd, cmd, arg) on one descriptor slot
Fcntl(cmd, arg) ==
    IF ~iod.valid
    THEN /\ fctl' = [cmd |-> cmd, arg |-> arg, ret |-> Failed(EBADF)]
         /\ iod' = iod
    ELSE CASE cmd = "F_GETFD" ->
                /\ fctl' = [cmd |-> cmd, arg |-> arg,
                            ret |-> Bits(GetFd(iod.flags))]
                /\ iod' = iod
           [] cmd = "F_GETFL" ->
                /\ fctl' = [cmd |-> cmd, arg |-> arg,
                            ret |-> Bits(GetFl(iod.flags))]
                /\ iod' = iod
           [] cmd = "F_SETFD" ->
                /\ iod' = [iod EXCEPT !.flags = SetFd(@, arg)]
                /\ fctl' = [cmd |-> cmd, arg |-> arg, ret |-> Bits({})]
           [] cmd = "F_SETFL" ->
                /\ iod' = [iod EXCEPT !.flags = SetFl(@, arg)]
                /\ fctl' = [cmd |-> cmd, arg |-> arg, ret |-> Bits({})]
           [] OTHER ->
                /\ fctl' = [cmd |-> cmd, arg |-> arg, ret |-> Failed(EINVAL)]
                /\ iod' = iod

\* fcntl has not been called; the slot is not in use
FcntlIdle ==
    /\ iod = [valid |-> FALSE, flags |-> {}]
    /\ fctl = NoFcntl

FcntlNext ==
    \E cmd \in FcntlCmds : \E arg \in FcntlArgs(cmd) :
       Fcntl(cmd, arg)
          /\ UNCHANGED <<qvars, fvars, gvars, kvars, pvars, cvars, bvars>>

\* ===================================================================
\* The command buffers of the file wrappers (src/src/file.c)
\* ===================================================================
\* -------------------------------------------------------------- bounds
\* the model stops counting buffers that were never freed at this many
MaxOutstanding == 2

ENOMEM == 12

\* what requestServer may return
ServerStatus == {0, 0 - 1}

\* the outcome of one call: its return value and the number of command
\* buffers it allocated and did not free
Outcome(ret, held) == [ret |-> ret, held |-> held]

\* file.c 24-40: calloc, fill, requestServer, free
mount(allocOk, st) ==
    IF ~allocOk THEN Outcome(0 - ENOMEM, 0)
    ELSE Outcome(st, 0)

\* file.c 42-64: getProcess, calloc, fill, requestServer, free
stat(hasProc, allocOk, st) ==
    IF ~hasProc THEN Outcome(0 - ESRCH, 0)
    ELSE IF ~allocOk THEN Outcome(0 - ENOMEM, 0)
    ELSE Outcome(st, 0)

\* file.c 77-104: calloc comes first; the return at line 82, taken when
\* getProcess finds no process, does not free the buffer
open(hasProc, allocOk, st) ==
    IF ~allocOk THEN Outcome(0 - ENOMEM, 0)
    ELSE IF ~hasProc THEN Outcome(0 - ESRCH, 1)
    ELSE Outcome(st, 0)

\* file.c 106-134: getProcess, iod->data, O_RDONLY, calloc, requestServer, free
readFile(hasProc, hasData, allowed, allocOk, st) ==
    IF ~hasProc THEN Outcome(0 - ESRCH, 0)
    ELSE IF ~hasData THEN Outcome(0 - EBADF, 0)
    ELSE IF ~allowed THEN Outcome(0 - EPERM, 0)
    ELSE IF ~allocOk THEN Outcome(0 - ENOMEM, 0)
    ELSE Outcome(st, 0)

\* file.c 136-171: getProcess, iod->data, O_WRONLY, calloc, requestServer, free
writeFile(hasProc, hasData, allowed, allocOk, st) ==
    IF ~hasProc THEN Outcome(0 - ESRCH, 0)
    ELSE IF ~hasData THEN Outcome(0 - EBADF, 0)
    ELSE IF ~allowed THEN Outcome(0 - EPERM, 0)
    ELSE IF ~allocOk THEN Outcome(0 - ENOMEM, 0)
    ELSE Outcome(st, 0)

\* file.c 274-300: getProcess, calloc, fill, requestServer, free
chown(hasProc, allocOk, st) ==
    IF ~hasProc THEN Outcome(0 - ESRCH, 0)
    ELSE IF ~allocOk THEN Outcome(0 - ENOMEM, 0)
    ELSE Outcome(st, 0)

\* file.c 302-327: getProcess, calloc, fill, requestServer, free
chmod(hasProc, allocOk, st) ==
    IF ~hasProc THEN Outcome(0 - ESRCH, 0)
    ELSE IF ~allocOk THEN Outcome(0 - ENOMEM, 0)
    ELSE Outcome(st, 0)

NoCmdCall == [op |-> "none", hasProc |-> TRUE, allocOk |-> TRUE, ret |-> 0]

\* wrapper op was called and has returned with outcome r
CmdCall(op, hasProc, allocOk, r) ==
    /\ cmds + r.held <= MaxOutstanding
    /\ cmds' = cmds + r.held
    /\ bcall' = [op |-> op, hasProc |-> hasProc, allocOk |-> allocOk,
                 ret |-> r.ret]

\* no wrapper has been called and no command buffer is allocated
CmdIdle == cmds = 0 /\ bcall = NoCmdCall

CmdNext ==
    \/ \E allocOk \in BOOLEAN, st \in ServerStatus :
          CmdCall("mount", TRUE, allocOk, mount(allocOk, st))
             /\ UNCHANGED <<qvars, fvars, gvars, kvars, pvars, cvars, lvars>>
    \/ \E hasProc, allocOk \in BOOLEAN, st \in ServerStatus :
          CmdCall("stat", hasProc, allocOk, stat(hasProc, allocOk, st))
             /\ UNCHANGED <<qvars, fvars, gvars, kvars, pvars, cvars, lvars>>
    \/ \E hasProc, allocOk \in BOOLEAN, st \in ServerStatus :
          CmdCall("open", hasProc, allocOk, open(hasProc, allocOk, st))
             /\ UNCHANGED <<qvars, fvars, gvars, kvars, pvars, cvars, lvars>>
    \/ \E hasProc, hasData, allowed, allocOk \in BOOLEAN,
          st \in ServerStatus :
          CmdCall("readFile", hasProc, allocOk,
                  readFile(hasProc, hasData, allowed, allocOk, st))
             /\ UNCHANGED <<qvars, fvars, gvars, kvars, pvars, cvars, lvars>>
    \/ \E hasProc, hasData, allowed, allocOk \in BOOLEAN,
          st \in ServerStatus :
          CmdCall("writeFile", hasProc, allocOk,
                  writeFile(hasProc, hasData, allowed, allocOk, st))
             /\ UNCHANGED <<qvars, fvars, gvars, kvars, pvars, cvars, lvars>>
    \/ \E hasProc, allocOk \in BOOLEAN, st \in ServerStatus :
          CmdCall("chown", hasProc, allocOk, chown(hasProc, allocOk, st))
             /\ UNCHANGED <<qvars, fvars, gvars, kvars, pvars, cvars, lvars>>
    \/ \E hasProc, allocOk \in BOOLEAN, st \in ServerStatus :
          CmdCall("chmod", hasProc, allocOk, chmod(hasProc, allocOk, st))
             /\ UNCHANGED <<qvars, fvars, gvars, kvars, pvars, cvars, lvars>>

\* ===================================================================
\* Specifications
\* ===================================================================

\* the syscall queue alone; the other parts of the kernel stay as they are
\* everything else that is idle in each of the specifications
OtherIdle == WrapIdle /\ CtxIdle /\ FcntlIdle /\ CmdIdle

Init == QueueInit /\ FileIdle /\ GeneralIdle /\ BootIdle /\ OtherIdle

Next ==
    \/ (\E t \in Threads : Schedule(t)) /\ UNCHANGED <<fvars, gvars, kvars, xvars>>
    \/ (\E t \in Threads : Raise(t)) /\ UNCHANGED <<fvars, gvars, kvars, xvars>>
    \/ (\E t \in Threads, fn \in Functions : SyscallEntry(t, fn))
          /\ UNCHANGED <<fvars, gvars, kvars, xvars>>
    \/ (\E t \in Threads, ret \in RetVals, unb \in BOOLEAN :
           FastPath(t, ret, unb)) /\ UNCHANGED <<fvars, gvars, kvars, xvars>>
    \/ (\E t \in Threads : HandleEnqueue(t))
          /\ UNCHANGED <<fvars, gvars, kvars, xvars>>
    \/ (\E t \in Threads : HandleBlock(t))
          /\ UNCHANGED <<fvars, gvars, kvars, xvars>>
    \/ (\E w \in Workers : WStart(w)) /\ UNCHANGED <<fvars, gvars, kvars, xvars>>
    \/ (\E w \in Workers : WDequeue(w)) /\ UNCHANGED <<fvars, gvars, kvars, xvars>>
    \/ (\E w \in Workers : WCheck(w)) /\ UNCHANGED <<fvars, gvars, kvars, xvars>>
    \/ (\E w \in Workers : WInvalid(w)) /\ UNCHANGED <<fvars, gvars, kvars, xvars>>
    \/ (\E w \in Workers, st \in {"ZOMBIE", "QUEUED", "BLOCKED", "RUNNING"} :
           WSignal(w, st)) /\ UNCHANGED <<fvars, gvars, kvars, xvars>>
    \/ (\E w \in Workers, o \in HandlerOutcomes : WRun(w, o))
          /\ UNCHANGED <<fvars, gvars, kvars, xvars>>
    \/ (\E w \in Workers : WFinish(w)) /\ UNCHANGED <<fvars, gvars, kvars, xvars>>

Spec == Init /\ [][Next]_vars

\* the file wrappers alone, from empty descriptor tables
FileSpec == Init /\ [][FileNext]_vars

\* the general request dispatcher alone
GeneralSpec == Init /\ [][GeneralNext]_vars

\* the kernel thread alone, in every environment
BootInit ==
    /\ QueueInit /\ FileIdle /\ GeneralIdle /\ OtherIdle
    /\ kpc = "start"
    /\ kenv \in BootEnvs
    /\ kst = BootState0
BootSpec == BootInit /\ [][BootNext]_vars

\* the path-carrying wrappers alone
WrapSpec == Init /\ [][WrapNext]_vars

\* context switches on one CPU alone
CtxSpec == Init /\ [][CtxNext]_vars

\* fcntl alone, on a slot that is closed or open with any access mode
FcntlInit ==
    /\ QueueInit /\ FileIdle /\ GeneralIdle /\ BootIdle
    /\ WrapIdle /\ CtxIdle /\ CmdIdle
    /\ iod \in [valid : BOOLEAN, flags : {{}, {"O_RDONLY"}}]
    /\ fctl = NoFcntl
FcntlSpec == FcntlInit /\ [][FcntlNext]_vars

\* the command buffers of the file wrappers alone
CmdSpec == Init /\ [][CmdNext]_vars

TypeOK ==
    /\ status \in [Threads -> {"RUNNING", "QUEUED", "BLOCKED", "ZOMBIE"}]
    /\ requests \in Threads \cup {NULL}
    /\ \A t \in Threads : sc[t].next \in Threads \cup {NULL}
    /\ \A t \in Threads : sc[t].function \in Functions

\* ===================================================================
\* Properties of the syscall queue
\* ===================================================================
Range(q) == {q[i] : i \in 1..Len(q)}

\* the function numbers the description routes to the fast path
FastNumbers ==
    (SYSCALL_IPC_START..SYSCALL_IPC_END) \cup
    (SYSCALL_RW_START..SYSCALL_RW_END) \cup {SYSCALL_LSEEK}

\* worker w leaves syscallProcess in this step
Returns(w) == wpc[w] # "idle" /\ wpc'[w] = "idle"

\* C1: the request list is FIFO: syscallDequeue hands out the requests in
\* the order syscallEnqueue received them, and returns NULL exactly when
\* no enqueued request remains.
C1_Fifo ==
    [][\A w \in Workers :
          wpc[w] = "deq" /\ wpc'[w] # "deq" =>
             IF fifo = <<>>
             THEN wpc'[w] = "idle"
             ELSE wpc'[w] = "chk" /\ wreq'[w] = Head(fifo)]_vars

\* C2: a worker never takes a request off the list and drops it without
\* running its handler while the issuing thread is alive.
C2_NoDiscard ==
    [][\A w \in Workers :
          wpc[w] = "chk" /\ wpc'[w] = "idle" =>
             status[wreq[w]] = "ZOMBIE"]_vars

\* C3: when the handler ran for a BLOCKED thread and set unblock, then on
\* return of syscallProcess the context holds the return value, the thread
\* is QUEUED with a fresh timeslice and busy is clear.
C3_Wake ==
    [][\A w \in Workers :
          LET t == wreq[w] IN
          (wpc[w] = "fin" /\ Returns(w) /\ wlog[w].ran
             /\ status[t] = "BLOCKED" /\ sc[t].unblock) =>
             /\ rax'[t] = sc'[t].ret
             /\ status'[t] = "QUEUED"
             /\ time'[t] = schedTimeslice(priority(t))
             /\ ~sc'[t].busy]_vars

C3_Witness ==
    \E t \in Threads, w \in Workers :
        /\ status[t] = "QUEUED" /\ sc[t].unblock /\ ~sc[t].busy
        /\ sc[t].function \notin FastNumbers
        /\ sc[t].ret = 1 /\ rax[t] = 1
        /\ time[t] = priority(t) + 1
        /\ wret[w] = <<1>>

\* C4: syscallHandle dispatches a request in trap context exactly when its
\* function number is in the IPC range, the read/write range or is lseek,
\* and then does not link it; every other request is linked and is not
\* dispatched in trap context.
C4_Routing ==
    [][\A t \in Threads :
          /\ (upc[t] = "user" /\ upc'[t] # "user") =>
                (upc'[t] = "fast" <=> sc'[t].function \in FastNumbers)
          /\ (upc[t] = "fast" /\ upc'[t] # "fast") =>
                /\ sc[t].function \in FastNumbers
                /\ requests' = requests
                /\ \A u \in Threads : sc'[u].next = sc[u].next
                /\ sc'[t].queued = sc[t].queued
          /\ (upc[t] = "enq" /\ upc'[t] = "blk") =>
                /\ sc[t].function \notin FastNumbers
                /\ t \in Range(Linked(sc', requests'))]_vars

C4_Witness ==
    \E t, u \in Threads :
        /\ upc[t] = "blk" /\ sc[t].queued /\ requests = t
        /\ sc[t].function \notin FastNumbers
        /\ sc[u].function \in FastNumbers
        /\ status[u] = "BLOCKED" /\ ~sc[u].queued /\ upc[u] = "user"

\* C5 (as claimed): after a fast-path dispatch the return value is in the
\* context register, and the thread is RUNNING if the handler set unblock
\* and BLOCKED if it cleared it.
C5_Orig ==
    [][\A t \in Threads :
          upc[t] = "fast" /\ upc'[t] # "fast" =>
             /\ rax'[t] = sc'[t].ret
             /\ status'[t] = IF sc'[t].unblock THEN "RUNNING"
                             ELSE "BLOCKED"]_vars

\* C5 (amended): after a fast-path dispatch the thread is RUNNING with the
\* return value in its context register if the handler set unblock; if the
\* handler cleared unblock the thread is BLOCKED and the context register
\* is left as it was.
C5_FastReturn ==
    [][\A t \in Threads :
          upc[t] = "fast" /\ upc'[t] # "fast" =>
             IF sc'[t].unblock
             THEN rax'[t] = sc'[t].ret /\ status'[t] = "RUNNING"
             ELSE rax'[t] = rax[t] /\ status'[t] = "BLOCKED"]_vars

C5_Witness ==
    \E t, u \in Threads :
        /\ upc[t] = "user" /\ sc[t].function \in FastNumbers
        /\ sc[t].unblock /\ status[t] = "RUNNING" /\ rax[t] = 1 /\ sc[t].ret = 1
        /\ upc[u] = "user" /\ sc[u].function \in FastNumbers
        /\ ~sc[u].unblock /\ status[u] = "BLOCKED" /\ rax[u] # sc[u].ret

\* the function number has a handler in the dispatch table
HasHandler(fn) == fn \in TableIndex /\ fn # NullSlot

\* C6: for a request with a valid function number the worker delivers the
\* thread's pending signals before the handler runs; if the delivery
\* leaves the thread ZOMBIE the pass ends without the handler, and no step
\* of syscallProcess takes a ZOMBIE thread out of ZOMBIE.
C6_SignalsFirst ==
    [][/\ \A w \in Workers :
            LET t == wreq[w] IN
            /\ (wpc[w] = "run" /\ wpc'[w] # "run") => wlog[w].sig
            /\ (wpc[w] = "disp" /\ wpc'[w] # "disp" /\ HasHandler(sc[t].function)) =>
                  /\ ~pending'[t]
                  /\ wpc'[w] = "run" => wlog'[w].sig /\ status'[t] = "BLOCKED"
                  /\ status'[t] = "ZOMBIE" => wpc'[w] = "idle" /\ ~wlog'[w].ran
       /\ \A t \in Threads :
            (status[t] = "ZOMBIE" /\ wpc' # wpc) => status'[t] = "ZOMBIE"]_vars

C6_Witness ==
    \E t \in Threads, w \in Workers :
        /\ status[t] = "ZOMBIE" /\ HasHandler(sc[t].function)
        /\ sc[t].busy /\ ~sc[t].unblock /\ ~pending[t] /\ raised = 1
        /\ wret[w] = <<1>> /\ wpc[w] = "idle"

\* C7: a queued request whose function number is out of range or has no
\* handler gets its thread terminated: when the worker that took it off
\* the list returns, the thread is ZOMBIE and no handler ran.
C7_InvalidKills ==
    [][\A w \in Workers :
          LET t == wreq[w] IN
          (Returns(w) /\ t # NULL /\ ~HasHandler(sc[t].function)) =>
             status'[t] = "ZOMBIE" /\ ~wlog[w].ran]_vars

\* C8: when the handler asks for a retry the request is linked at the tail
\* of the list with queued set, and the pass leaves the thread BLOCKED.
C8_Retry ==
    [][\A w \in Workers :
          LET t == wreq[w] IN
          /\ (wpc[w] = "run" /\ wpc'[w] = "fin" /\ wlog'[w].retry) =>
                /\ sc'[t].queued /\ sc'[t].retry /\ ~sc'[t].unblock
                /\ sc'[t].next = NULL
                /\ requests' # NULL
                /\ TailFrom(sc', requests', NThreads) = t
                /\ status'[t] = status[t]
          /\ (wpc[w] = "fin" /\ Returns(w) /\ wlog[w].retry /\ sc[t].queued) =>
                /\ status'[t] = status[t]
                /\ sc'[t] = sc[t] /\ requests' = requests]_vars

C8_Witness ==
    \E t \in Threads, w \in Workers :
        /\ status[t] = "BLOCKED" /\ sc[t].queued /\ sc[t].retry
        /\ t \in Range(Linked(sc, requests)) /\ requests # t
        /\ wpc[w] = "idle" /\ wret[w] = <<1>>

\* C9: no syscall record has busy and queued set together.
C9_BusyQueuedExclusive ==
    \A t \in Threads : ~(sc[t].busy /\ sc[t].queued)

C9_Witness ==
    \E t, u \in Threads : sc[t].busy /\ ~sc[t].queued /\ sc[u].queued /\ ~sc[u].busy

\* C10 (as claimed): every BLOCKED thread has exactly one of busy and
\* queued set, whether it blocked on the fast path or on the queued path.
C10_Orig ==
    \A t \in Threads :
        status[t] = "BLOCKED" => (sc[t].busy # sc[t].queued)

\* C10 (amended): every thread that is BLOCKED in a syscall routed to the
\* queue has exactly one of busy and queued set.
C10_BlockedQueuedPath ==
    \A t \in Threads :
        (status[t] = "BLOCKED" /\ sc[t].function \notin FastNumbers) =>
            (sc[t].busy # sc[t].queued)

C10_Witness ==
    \E t, u \in Threads :
        /\ status[t] = "BLOCKED" /\ sc[t].function \notin FastNumbers
        /\ sc[t].busy /\ ~sc[t].queued
        /\ status[u] = "BLOCKED" /\ sc[u].function \notin FastNumbers
        /\ sc[u].queued /\ ~sc[u].busy

\* ===================================================================
\* Properties of the file descriptors
\* ===================================================================
\* slot fd of process p is an open file
IsFile(p, fd) ==
    io[p][fd].valid /\ io[p][fd].type = "FILE" /\ io[p][fd].data # NULL

\* the slots that hold FileDescriptor o
Holders(o) == {s \in Procs \X Fds : io[s[1]][s[2]].data = o}

\* C11: on an open file at position pos, lseek(fd, 0, SEEK_CUR) returns pos
\* and leaves the position; lseek(fd, k, SEEK_SET) with k >= 0 returns k and
\* sets the position to k; with k < 0 it returns EINVAL and the position
\* stays.
C11_Lseek ==
    [][\A p \in Procs, fd \in Fds, k \in Offsets, wh \in Whences :
          (IsFile(p, fd) /\ Lseek(p, fd, k, wh)) =>
             LET file == io[p][fd].data
                 pos == objs[file].position
             IN  /\ (wh = "SEEK_CUR" /\ k = 0) =>
                       (fcall'.ret = pos /\ objs'[file].position = pos)
                 /\ (wh = "SEEK_SET" /\ k >= 0) =>
                       (fcall'.ret = k /\ objs'[file].position = k)
                 /\ (wh = "SEEK_SET" /\ k < 0) =>
                       (fcall'.ret = 0 - EINVAL /\ objs' = objs)]_vars

\* an lseek on an open file has moved it to the last position
C11_Witness ==
    /\ fcall.op = "lseek" /\ fcall.fd \in Fds
    /\ IsFile(fcall.p, fcall.fd)
    /\ fcall.ret = MaxPos
    /\ objs[io[fcall.p][fcall.fd].data].position = MaxPos

\* this step is a read, lseek or closeFile on slot fd of process p
CallOn(p, fd) == fcall' # fcall /\ fcall'.p = p /\ fcall'.fd = fd

\* C12: once closeFile has returned 0 for a slot, every read, lseek or
\* closeFile on that slot returns EBADF until the slot is opened again, and
\* no FileDescriptor is touched (no reference count drops a second time).
C12_ClosedStaysClosed ==
    [][\A p \in Procs, fd \in Fds :
          (closed[p][fd] /\ CallOn(p, fd)) =>
             (fcall'.ret = 0 - EBADF /\ objs' = objs /\ io' = io)]_vars

\* a second closeFile on a closed slot was refused while the other holder
\* of the shared FileDescriptor still has it, with one reference left
C12_Witness ==
    /\ fcall.op = "close" /\ fcall.fd \in Fds
    /\ closed[fcall.p][fcall.fd]
    /\ fcall.ret = 0 - EBADF
    /\ \E o \in Objs :
          /\ objs[o].live /\ objs[o].kind = "FILE" /\ objs[o].refCount = 1
          /\ Cardinality(Holders(o)) = 1

\* no open file slot points at freed memory, and a live FileDescriptor
\* counts exactly the slots that hold it
CountsHolders ==
    /\ \A p \in Procs, fd \in Fds :
          IsFile(p, fd) =>
             (objs[io[p][fd].data].live /\ objs[io[p][fd].data].kind = "FILE")
    /\ \A o \in Objs :
          (objs[o].live /\ objs[o].kind = "FILE") =>
             (Holders(o) # {} /\ objs[o].refCount = Cardinality(Holders(o)))

\* C13: a FileDescriptor held by n slots has reference count n and is freed
\* by closeFile exactly when the last of the n holders closes; until then it
\* stays allocated, the other holders' slots are untouched, and their reads
\* and seeks are not refused with EBADF.
C13_SharedRelease ==
    [][/\ CountsHolders'
       /\ \A p \in Procs, fd \in Fds :
             /\ (IsFile(p, fd) /\ CloseFile(p, fd)) =>
                   LET o == io[p][fd].data
                       n == Cardinality(Holders(o))
                   IN  /\ objs[o].refCount = n
                       /\ objs'[o].live <=> n > 1
                       /\ n > 1 => objs'[o].refCount = n - 1
                       /\ \A s \in Holders(o) \ {<<p, fd>>} :
                             io'[s[1]][s[2]] = io[s[1]][s[2]]
             /\ (IsFile(p, fd) /\ CallOn(p, fd) /\ fcall'.op # "close") =>
                   fcall'.ret # 0 - EBADF]_vars

\* one of two holders has closed: the FileDescriptor is still allocated
\* with one reference, held by the other process
C13_Witness ==
    /\ fcall.op = "close" /\ fcall.ret = 0
    /\ io[fcall.p][fcall.fd] = NoSlot
    /\ \E q \in Procs \ {fcall.p}, fd \in Fds :
          /\ IsFile(q, fd)
          /\ objs[io[q][fd].data].live
          /\ objs[io[q][fd].data].refCount = 1
          /\ objs[io[q][fd].data].position = MaxPos

\* C14: lseek and closeFile on a slot that is not valid or not of type FILE
\* (a SOCKET slot with a non-null data pointer, say) return EBADF and change
\* neither the descriptor table nor any object.
C14_WrongTypeRefused ==
    [][\A p \in Procs, fd \in Fds :
          (~IsFile(p, fd) /\ CallOn(p, fd) /\ fcall'.op \in {"lseek", "close"})
             => (fcall'.ret = 0 - EBADF /\ io' = io /\ objs' = objs)]_vars

\* ===================================================================
\* Properties of the general request dispatcher
\* ===================================================================
\* handleGeneralRequest has returned for the message in gmsg
Handled == gpc = "idle" /\ gmsg.sd # 0

\* the call got as far as the table lookup
Dispatched == glog.events # <<>>

\* C15: handleGeneralRequest calls no handler and sends no response when the
\* request has the response flag set, a zero requester, or a length below
\* the size of the message header.
C15_MalformedDropped ==
    (/\ Handled
     /\ \/ gmsg.m.response
        \/ gmsg.m.requester = 0
        \/ gmsg.m.length < HeaderSize)
       => (~Dispatched /\ glog.handler = "none" /\ ~glog.reply.sent
           /\ glog.mapped = 0)

\* a framebuffer request of the Router itself, one byte short, was dropped
C15_Witness ==
    /\ Handled
    /\ gmsg.sd = LumenProc /\ gmsg.m.requester = LumenProc
    /\ gmsg.m.command = 6 /\ ~gmsg.m.response
    /\ gmsg.m.length = HeaderSize - 1
    /\ glog = NoGLog

\* the header passes the checks of general.c 30 and names a thread
WellFormed(m) ==
    ~m.response /\ m.requester \in Tids /\ m.length >= HeaderSize

\* the process is the Router or a direct child of the Router
InFamily(pid) == pid = LumenProc \/ ParentOf(pid) = LumenProc

\* C16: a well-formed request is dispatched exactly when the process that
\* owns the requester thread is the Router or a direct child of the Router,
\* for every thread of those processes (Router threads whose TID is not the
\* Router PID included); a request of any other process is dropped with no
\* response.
C16_DispatchIffFamily ==
    (Handled /\ WellFormed(gmsg.m)) =>
       /\ Dispatched <=> InFamily(ThreadPid(gmsg.m.requester))
       /\ ~InFamily(ThreadPid(gmsg.m.requester)) => ~glog.reply.sent

\* C17: a framebuffer request sent by a process that is neither the Router
\* nor a direct child gets no reply on the sender's socket and maps the
\* framebuffer nowhere, whatever the requester field of its header says.
C17_ImpostorDropped ==
    (Handled /\ ~InFamily(gmsg.sd) /\ gmsg.m.command = 6) =>
       (~glog.reply.sent /\ glog.mapped = 0)

\* C18: for every command that passes the checks the dispatcher either
\* calls the handler registered for it or logs and drops the request; it
\* reads no entry outside generalRequests[] and calls through no entry that
\* was not registered.
C18_TableBounds ==
    Handled =>
       /\ ~glog.oob
       /\ glog.handler \in {"none", "getFramebuffer"}
       /\ glog.handler = "getFramebuffer" => gmsg.m.command = 6

BootFails(env) ==
    \/ env.size < 10
    \/ ~env.mallocOk
    \/ ~env.readOk
    \/ env.pid = 0

\* kernelThread has not gone past the point where it halts
NotBooted ==
    /\ kpc \in {"start", "size", "alloc", "read", "exec", "halt"}
    /\ kst.lumenPID = 0
    /\ kst.loops = 0 /\ kst.count = 0
    /\ kpc # "start" => (~kst.scheduling /\ ~kst.localSched)
    /\ kenv.size < 10 => kst.execs = 0

\* C20: when lumen is absent from the ramdisk or shorter than 10 bytes, or
\* when allocating, reading or starting it fails, the kernel thread halts
\* and stays halted: it records no Router PID, does not enable scheduling
\* again and never enters the serverIdle/syscallProcess loop, and with lumen
\* absent or too short it does not try to start the Router.
C20_HaltsWithoutLumen ==
    [][/\ BootFails(kenv') => NotBooted'
       /\ kpc = "halt" => (kpc' = "halt" /\ kst' = kst)]_vars

\* a 9-byte lumen: the kernel thread sits in the halt loop with scheduling
\* off although everything else would have succeeded
C20_Witness ==
    /\ kpc = "halt"
    /\ kenv.size = 9 /\ kenv.mallocOk /\ kenv.readOk /\ kenv.pid = LumenProc
    /\ kst.kernelPID = KernelProc
    /\ ~kst.scheduling /\ kst.lumenPID = 0 /\ kst.execs = 0

\* ===================================================================
\* Properties of the path-carrying wrappers
\* ===================================================================
\* the absolute path the description requires for a path argument
AbsoluteOf(cwd, path) ==
    IF Len(path) > 0 /\ path[1] = "/" THEN path
    ELSE IF cwd = <<"/">> THEN cwd \o path
    ELSE cwd \o <<"/">> \o path

\* C21: each of open, stat, chown, chmod and mount sends an absolute path:
\* a path that starts with '/' unchanged, a relative one as the cwd of the
\* process, one '/' (none when cwd is "/") and the path.
C21_AbsolutePaths ==
    wsent.op # "none" =>
       /\ wsent.sent = AbsoluteOf(wsent.cwd, wsent.path)
       /\ wsent.sent[1] = "/"

\* ===================================================================
\* Further properties of the syscall queue
\* ===================================================================
\* the request list is a chain that ends, with no record in it twice
Acyclic ==
    /\ ~hung
    /\ WalkEnds(sc, requests)
    /\ LET c == Linked(sc, requests)
       IN  \A i, j \in 1..Len(c) : i # j => c[i] # c[j]

\* C22: whatever syscall entries, dequeues and re-enqueues have happened,
\* the request list is a finite chain without a cycle that holds each
\* thread's record at most once, and a step takes no record out of the
\* chain other than the head that syscallDequeue removes; so the tail walk
\* of syscallEnqueue ends.
C22_AcyclicChain ==
    [][/\ Acyclic'
       /\ \A t \in Range(Linked(sc, requests)) :
             \/ t \in Range(Linked(sc', requests'))
             \/ (t = requests /\ requests' = sc[t].next)]_vars

\* C23: in every state a record has its queued flag set exactly when it is
\* linked into the request list.
C23_QueuedIffLinked ==
    \A t \in Threads :
       sc[t].queued <=> t \in Range(Linked(sc, requests))

\* C24: busy is set only while a worker is inside syscallProcess for the
\* record: when syscallProcess returns for a request it dequeued, however
\* the pass ended, the busy flag of that request is clear.
C24_BusyOnlyInside ==
    [][\A w \in Workers :
          (Returns(w) /\ wreq[w] # NULL) => ~sc'[wreq[w]].busy]_vars

\* C25: syscallProcess returns zero only when the queue is empty: a call
\* that returns zero has taken no request from the list and leaves no
\* request linked.
C25_ZeroOnlyIfEmpty ==
    [][\A w \in Workers :
          (Returns(w) /\ wret'[w] = <<0>>) =>
             (wreq[w] = NULL /\ requests' = NULL)]_vars

\* worker w is at the end of a pass for thread t (queue.c 138)
AtWake(w, t) == wpc[w] = "fin" /\ wreq[w] = t /\ wpc'[w] # "fin"

\* worker w is at signalHandle for thread t (queue.c 125)
AtSignal(w, t) == wpc[w] = "disp" /\ wreq[w] = t /\ wpc'[w] # "disp"

\* a step of some worker inside syscallProcess
WorkerStep == wpc' # wpc

\* C26: syscallProcess makes a thread QUEUED, and gives it a timeslice,
\* only in the wake-up at the end of a pass and only when the thread is
\* BLOCKED and its request has unblock set; apart from that a thread turns
\* QUEUED during a pass only inside signalHandle, when that delivers a
\* pending signal to a thread that is not ZOMBIE.  A thread that is ZOMBIE,
\* through its handler or through a signal, is not made QUEUED and gets no
\* timeslice.
C26_WakeOnlyBlocked ==
    [][\A t \in Threads :
          /\ (WorkerStep /\ status[t] # "QUEUED" /\ status'[t] = "QUEUED") =>
                \/ /\ \E w \in Workers : AtWake(w, t)
                   /\ status[t] = "BLOCKED" /\ sc[t].unblock
                \/ /\ \E w \in Workers : AtSignal(w, t)
                   /\ pending[t] /\ status[t] # "ZOMBIE"
          /\ (WorkerStep /\ time'[t] # time[t]) =>
                (/\ \E w \in Workers : AtWake(w, t)
                 /\ status[t] = "BLOCKED" /\ sc[t].unblock)
          /\ (WorkerStep /\ status[t] = "ZOMBIE") =>
                (status'[t] = "ZOMBIE" /\ time'[t] = time[t])]_vars

\* a handler exited its thread with unblock set: the pass has ended, the
\* thread is ZOMBIE and was not woken
C26_Witness ==
    \E w \in Workers, t \in Threads :
       /\ wret[w] = <<1>> /\ wpc[w] = "idle"
       /\ status[t] = "ZOMBIE"
       /\ sc[t].unblock /\ sc[t].busy

\* ===================================================================
\* Further properties of the general request dispatcher
\* ===================================================================
\* the positions of event e in what the dispatcher did
At(e) == {i \in 1..Len(glog.events) : glog.events[i] = e}

\* C27: a run of getFramebuffer that takes the scheduler lock releases it
\* before it returns, on the success path and on both failure paths, and
\* sends the response only after the release.
C27_LockReleased ==
    Handled =>
       /\ \A l \in At("lock") : \E r \in At("release") : l < r
       /\ \A s \in At("send") : \E r \in At("release") : r < s

\* ===================================================================
\* Properties of the context switch
\* ===================================================================
\* C28: from a TSS that denies all ports, after any sequence of context
\* switches the TSS I/O bitmap of the CPU is the bitmap the incoming thread
\* had when it was switched to, although the copy is made only when the
\* incoming or the outgoing thread has nonzero I/O privilege; a created
\* context has zero privilege and a bitmap that denies all ports.
C28_TssFollowsThread ==
    /\ cur # NULL => tss = want
    /\ \A t \in CtxThreads :
          (ctxs[t].made /\ ctxs[t].iopl = 0) => ctxs[t].ioports = DenyAll

\* an unprivileged thread was switched to after a privileged one that had
\* ports allowed: the TSS denies all ports again
C28_Witness ==
    /\ cur # NULL /\ ctxs[cur].iopl = 0 /\ tss = DenyAll
    /\ want = DenyAll
    /\ \E t \in CtxThreads \ {cur} :
          ctxs[t].iopl = 1 /\ ctxs[t].ioports = Ports

\* ===================================================================
\* Properties of fcntl
\* ===================================================================
\* this step is a call of fcntl on a valid descriptor
FcntlCall(cmd) == iod.valid /\ fctl' # fctl /\ fctl'.cmd = cmd

\* C29: on a valid descriptor F_GETFL right after F_SETFL with argument a
\* returns a restricted to append, nonblock, sync and dsync, and F_GETFD
\* right after F_SETFD with argument a returns a restricted to close-on-exec
\* and close-on-fork; F_SETFL changes none of the other flags, F_SETFD
\* changes no status flag (nor any other flag), and an unknown command
\* returns EINVAL and changes no flag.
C29_FcntlRoundTrip ==
    [][/\ (FcntlCall("F_GETFL") /\ fctl.cmd = "F_SETFL") =>
             fctl'.ret = Bits(fctl.arg \cap StatusFlags)
       /\ (FcntlCall("F_GETFD") /\ fctl.cmd = "F_SETFD") =>
             fctl'.ret = Bits(fctl.arg \cap FdBits)
       /\ FcntlCall("F_SETFL") =>
             /\ iod'.flags \ StatusFlags = iod.flags \ StatusFlags
             /\ fctl'.ret = Bits({})
       /\ FcntlCall("F_SETFD") =>
             /\ iod'.flags \ DescFlags = iod.flags \ DescFlags
             /\ fctl'.ret = Bits({})
       /\ FcntlCall("F_OTHER") =>
             (fctl'.ret = Failed(EINVAL) /\ iod' = iod)]_vars

\* F_GETFL returned append and sync, set by the F_SETFL before it, on a
\* read-only descriptor that has close-on-exec set
C29_Witness ==
    /\ iod.valid
    /\ fctl.cmd = "F_GETFL"
    /\ fctl.ret = Bits({"O_APPEND", "O_SYNC"})
    /\ iod.flags = {"O_APPEND", "O_SYNC", "O_CLOEXEC", "O_RDONLY"}

\* ===================================================================
\* Further properties of the file descriptors
\* ===================================================================
\* this step is a call of lseek that returned an error
SeekFailed ==
    /\ fcall' # fcall
    /\ fcall'.op \in {"lseek", "lseekNoProcess"}
    /\ fcall'.ret < 0

\* C30: an lseek that fails (fd out of range, process missing, no file
\* data, unknown whence, or a SEEK_SET or SEEK_CUR target below zero) leaves
\* every file position as it was, and on an open descriptor an unknown
\* whence such as SEEK_END returns EINVAL.
C30_FailedSeekKeepsPosition ==
    [][/\ SeekFailed => (objs' = objs /\ io' = io)
       /\ \A p \in Procs, fd \in Fds, k \in Offsets :
             (FileOf(p, fd) # NULL /\ Lseek(p, fd, k, "SEEK_END")) =>
                fcall'.ret = 0 - EINVAL]_vars

\* SEEK_END on an open file that stands at the last position was refused
\* with EINVAL
C30_Witness ==
    /\ fcall.op = "lseek" /\ fcall.fd \in Fds
    /\ fcall.ret = 0 - EINVAL
    /\ IsFile(fcall.p, fcall.fd)
    /\ objs[io[fcall.p][fcall.fd].data].position = MaxPos
    /\ objs[io[fcall.p][fcall.fd].data].refCount = 2

\* ===================================================================
\* Properties of the command buffers
\* ===================================================================
\* C31: every wrapper that allocates a command buffer frees it on every
\* return path, so that after any sequence of wrapper calls no command
\* buffer is outstanding.
C31_NoOutstandingBuffers == cmds = 0
====
